---- MODULE Spec2Model ----
(***************************************************************************)
(* Model of torchmetrics/functional/classification.py: the per-class and   *)
(* multi-class stat scorers, precision/recall, the dice score and the      *)
(* confusion-matrix row normalisation.                                     *)
(*                                                                         *)
(* A tensor is a record [ndim, data]: a label tensor has ndim = 1 and a    *)
(* sequence of integer labels, a probability tensor has ndim = 2 and a     *)
(* sequence of rows of scores (class axis 1).  Counts are integers (the    *)
(* code's float tensors hold them exactly); ratios are exact rationals     *)
(* <<n, d>> in lowest terms, with NaN = <<0, 0>> and Inf = <<1, 0>>.        *)
(***************************************************************************)
EXTENDS Integers, Sequences, FiniteSets, TLC

VARIABLES pred, target, cm, call, result, warnings

vars == <<pred, target, cm, call, result, warnings>>

\* ------------------------------------------------------------- bounds
MaxLen == 2
MaxLabel == 2
MaxRows == 2
MaxCols == 2
MaxDim == 2
MaxCount == 2

\* num_classes: Optional[int] = None
None == -1

\* ------------------------------------------------------------- arithmetic
RECURSIVE GCD(_, _)
GCD(a, b) == IF b = 0 THEN a ELSE GCD(b, a % b)

NaN == <<0, 0>>
Inf == <<1, 0>>

\* a / b as the float division of two non-negative numbers: 0/0 is NaN, x/0 is inf
Frac(a, b) ==
    IF b = 0 THEN (IF a = 0 THEN NaN ELSE Inf)
    ELSE LET g == GCD(a, b) IN <<a \div g, b \div g>>

IsNaN(x) == x = NaN

RAdd(x, y) ==
    IF IsNaN(x) \/ IsNaN(y) THEN NaN
    ELSE IF x = Inf \/ y = Inf THEN Inf
    ELSE Frac(x[1] * y[2] + y[1] * x[2], x[2] * y[2])

RMul(x, y) ==
    IF IsNaN(x) \/ IsNaN(y) THEN NaN
    ELSE IF x = Inf \/ y = Inf
         THEN (IF x[1] = 0 \/ y[1] = 0 THEN NaN ELSE Inf)
    ELSE Frac(x[1] * y[1], x[2] * y[2])

RDiv(x, y) ==
    IF IsNaN(x) \/ IsNaN(y) THEN NaN
    ELSE IF y = Inf THEN (IF x = Inf THEN NaN ELSE <<0, 1>>)
    ELSE IF x = Inf THEN Inf
    ELSE Frac(x[1] * y[2], x[2] * y[1])

RLeq(x, y) == x[1] * y[2] <= y[1] * x[2]

RECURSIVE SumSeq(_)
SumSeq(s) == IF s = <<>> THEN 0 ELSE s[1] + SumSeq(Tail(s))

RECURSIVE RSumSeq(_)
RSumSeq(s) == IF s = <<>> THEN <<0, 1>> ELSE RAdd(s[1], RSumSeq(Tail(s)))

RECURSIVE MaxSeq(_)
MaxSeq(s) ==
    IF Len(s) = 1 THEN s[1]
    ELSE LET m == MaxSeq(Tail(s)) IN IF s[1] >= m THEN s[1] ELSE m

\* a boolean mask element as the integer it multiplies and sums as
B(b) == IF b THEN 1 ELSE 0

Min(a, b) == IF a <= b THEN a ELSE b

\* ------------------------------------------------------------- collaborators
\* torch.argmax of one row: the 0-based index of the first maximal value
ArgMax(row) ==
    (CHOOSE j \in 1..Len(row) :
        /\ row[j] = MaxSeq(row)
        /\ \A k \in 1..(j - 1) : row[k] < row[j]) - 1

to_categorical(tensor) ==
    [ndim |-> 1, data |-> [k \in 1..Len(tensor.data) |-> ArgMax(tensor.data[k])]]

get_num_classes(p, t, num_classes) ==
    IF num_classes = None
    THEN LET a == MaxSeq(t.data) + 1
             b == MaxSeq(p.data) + 1
         IN IF a >= b THEN a ELSE b
    ELSE num_classes

\* fraction[fraction != fraction] = 0
NanToZero(x) == IF IsNaN(x) THEN <<0, 1>> ELSE x

class_reduce(num, denom, weights, class_reduction) ==
    LET n == Len(num)
        fraction == [c \in 1..n |-> NanToZero(Frac(num[c], denom[c]))]
    IN CASE class_reduction = "micro" ->
                NanToZero(Frac(SumSeq(num), SumSeq(denom)))
         [] class_reduction = "macro" ->
                RDiv(RSumSeq(fraction), <<n, 1>>)
         [] class_reduction = "weighted" ->
                RSumSeq([c \in 1..n |->
                    RMul(fraction[c], Frac(weights[c], SumSeq(weights)))])
         [] class_reduction = "none" -> fraction

reduce(to_reduce, reduction) ==
    CASE reduction = "elementwise_mean" ->
            RDiv(RSumSeq(to_reduce), <<Len(to_reduce), 1>>)
      [] reduction = "sum" -> RSumSeq(to_reduce)
      [] reduction = "none" -> to_reduce

\* ------------------------------------------------------------- stat_scores
\* slip: the false negatives masked with target != class_index
stat_scores_fn_slip(p, t, class_index) ==
    LET pc == IF p.ndim = t.ndim + 1 THEN to_categorical(p) ELSE p
        n == Len(t.data)
        P(k) == pc.data[k] = class_index
        T(k) == t.data[k] = class_index
    IN [tp  |-> SumSeq([k \in 1..n |-> B(P(k)) * B(T(k))]),
        fp  |-> SumSeq([k \in 1..n |-> B(P(k)) * B(~T(k))]),
        tn  |-> SumSeq([k \in 1..n |-> B(~P(k)) * B(~T(k))]),
        fn  |-> SumSeq([k \in 1..n |-> B(~P(k)) * B(~T(k))]),
        sup |-> SumSeq([k \in 1..n |-> B(T(k))])]

stat_scores(p, t, class_index) ==
    LET pc == IF p.ndim = t.ndim + 1 THEN to_categorical(p) ELSE p
        n == Len(t.data)
        P(k) == pc.data[k] = class_index
        T(k) == t.data[k] = class_index
    IN [tp  |-> SumSeq([k \in 1..n |-> B(P(k)) * B(T(k))]),
        fp  |-> SumSeq([k \in 1..n |-> B(P(k)) * B(~T(k))]),
        tn  |-> SumSeq([k \in 1..n |-> B(~P(k)) * B(~T(k))]),
        fn  |-> SumSeq([k \in 1..n |-> B(~P(k)) * B(T(k))]),
        sup |-> SumSeq([k \in 1..n |-> B(T(k))])]

\* ------------------------------------------------------------- stat_scores_multiple_classes
\* tensor.clamp_max(max=m)
clamp_max(tensor, m) ==
    [ndim |-> tensor.ndim, data |-> [k \in 1..Len(tensor.data) |-> Min(tensor.data[k], m)]]

\* self.scatter_add_(0, index, src): self[index[k]] += src[k], buckets 0-based
scatter_add_(self, index, src) ==
    [c \in 1..Len(self) |->
        self[c] + SumSeq([k \in 1..Len(index) |-> IF index[k] = c - 1 THEN src[k] ELSE 0])]

zeros(size) == [c \in 1..size |-> 0]

\* x[:n]
Prefix(x, n) == SubSeq(x, 1, n)

\* slip: the false negatives scattered by the predicted class
scores_none_fns_by_pred(p, t, num_classes) ==
    LET n == Len(p.data)
        match_true == [k \in 1..n |-> B(p.data[k] = t.data[k])]
        match_false == [k \in 1..n |-> 1 - match_true[k]]
        tps == scatter_add_(zeros(num_classes + 1), p.data, match_true)
        fps == scatter_add_(zeros(num_classes + 1), p.data, match_false)
        fns == scatter_add_(zeros(num_classes + 1), p.data, match_false)
        tns == [c \in 1..(num_classes + 1) |-> n - (tps[c] + fps[c] + fns[c])]
        sups == scatter_add_(zeros(num_classes + 1), t.data, [k \in 1..n |-> 1])
    IN [tps |-> Prefix(tps, num_classes), fps |-> Prefix(fps, num_classes),
        tns |-> Prefix(tns, num_classes), fns |-> Prefix(fns, num_classes),
        sups |-> Prefix(sups, num_classes)]

\* slip: the support scattered by the predicted class
scores_none_sups_by_pred(p, t, num_classes) ==
    LET n == Len(p.data)
        match_true == [k \in 1..n |-> B(p.data[k] = t.data[k])]
        match_false == [k \in 1..n |-> 1 - match_true[k]]
        tps == scatter_add_(zeros(num_classes + 1), p.data, match_true)
        fps == scatter_add_(zeros(num_classes + 1), p.data, match_false)
        fns == scatter_add_(zeros(num_classes + 1), t.data, match_false)
        tns == [c \in 1..(num_classes + 1) |-> n - (tps[c] + fps[c] + fns[c])]
        sups == scatter_add_(zeros(num_classes + 1), p.data, [k \in 1..n |-> 1])
    IN [tps |-> Prefix(tps, num_classes), fps |-> Prefix(fps, num_classes),
        tns |-> Prefix(tns, num_classes), fns |-> Prefix(fns, num_classes),
        sups |-> Prefix(sups, num_classes)]

\* slip: the false positives accumulated from match_true
scores_none_fps_from_match_true(p, t, num_classes) ==
    LET n == Len(p.data)
        match_true == [k \in 1..n |-> B(p.data[k] = t.data[k])]
        match_false == [k \in 1..n |-> 1 - match_true[k]]
        tps == scatter_add_(zeros(num_classes + 1), p.data, match_true)
        fps == scatter_add_(zeros(num_classes + 1), p.data, match_true)
        fns == scatter_add_(zeros(num_classes + 1), t.data, match_false)
        tns == [c \in 1..(num_classes + 1) |-> n - (tps[c] + fps[c] + fns[c])]
        sups == scatter_add_(zeros(num_classes + 1), t.data, [k \in 1..n |-> 1])
    IN [tps |-> Prefix(tps, num_classes), fps |-> Prefix(fps, num_classes),
        tns |-> Prefix(tns, num_classes), fns |-> Prefix(fns, num_classes),
        sups |-> Prefix(sups, num_classes)]

\* the reduction == 'none' branch, on the clamped label tensors
scores_none(p, t, num_classes) ==
    LET n == Len(p.data)
        match_true == [k \in 1..n |-> B(p.data[k] = t.data[k])]
        match_false == [k \in 1..n |-> 1 - match_true[k]]
        tps == scatter_add_(zeros(num_classes + 1), p.data, match_true)
        fps == scatter_add_(zeros(num_classes + 1), p.data, match_false)
        fns == scatter_add_(zeros(num_classes + 1), t.data, match_false)
        tns == [c \in 1..(num_classes + 1) |-> n - (tps[c] + fps[c] + fns[c])]
        sups == scatter_add_(zeros(num_classes + 1), t.data, [k \in 1..n |-> 1])
    IN [tps |-> Prefix(tps, num_classes), fps |-> Prefix(fps, num_classes),
        tns |-> Prefix(tns, num_classes), fns |-> Prefix(fns, num_classes),
        sups |-> Prefix(sups, num_classes)]

\* the reduction == 'sum' branch, on the clamped label tensors
scores_sum(p, t, num_classes) ==
    LET nelement == Len(p.data)
        count_match_true == SumSeq([k \in 1..nelement |-> B(p.data[k] = t.data[k])])
        oob == stat_scores(p, t, num_classes)
        tps == count_match_true - oob.tp
        fps == nelement - count_match_true - oob.fp
        fns == nelement - count_match_true - oob.fn
        tns == nelement * (num_classes + 1) - (tps + fps + fns + oob.tn)
        sups == nelement - oob.sup
    IN [tps |-> tps, fps |-> fps, tns |-> tns, fns |-> fns, sups |-> sups]

\* the reduction == 'elementwise_mean' branch: the sums, each divided by num_classes
scores_elementwise_mean(p, t, num_classes) ==
    LET s == scores_sum(p, t, num_classes)
    IN [tps |-> Frac(s.tps, num_classes), fps |-> Frac(s.fps, num_classes),
        tns |-> Frac(s.tns, num_classes), fns |-> Frac(s.fns, num_classes),
        sups |-> Frac(s.sups, num_classes)]

possible_reductions == {"none", "sum", "elementwise_mean"}

DeprecationSSMC == "stat_scores_multiple_classes deprecated"

\* slip: the reduction validated only after the scores were computed
stat_scores_multiple_classes_late_check(p0, t0, num_classes0, reduction) ==
    LET convert == p0.ndim = t0.ndim + 1
        p1 == IF convert THEN to_categorical(p0) ELSE p0
        num_classes == get_num_classes(p1, t0, num_classes0)
        p == clamp_max(p1, num_classes)
        t == clamp_max(t0, num_classes)
        pre == (IF convert THEN <<"to_categorical">> ELSE <<>>)
                   \o <<"get_num_classes", "clamp_max", "scores">>
    IN IF reduction \notin possible_reductions
       THEN [err |-> "ValueError", msg |-> <<"reduction type not supported", reduction>>,
             steps |-> pre, num_classes |-> num_classes, scores |-> <<>>]
       ELSE [err |-> "", msg |-> <<>>,
             steps |-> pre, num_classes |-> num_classes,
             scores |-> CASE reduction = "none" -> scores_none(p, t, num_classes)
                          [] reduction = "sum" -> scores_sum(p, t, num_classes)
                          [] reduction = "elementwise_mean" ->
                                 scores_elementwise_mean(p, t, num_classes)]

\* The record returned: err is "" on a normal return; steps lists, in order, the
\* computations the body performed before it returned or raised.
stat_scores_multiple_classes(p0, t0, num_classes0, reduction) ==
    LET convert == p0.ndim = t0.ndim + 1
        p1 == IF convert THEN to_categorical(p0) ELSE p0
        num_classes == get_num_classes(p1, t0, num_classes0)
        p == clamp_max(p1, num_classes)
        t == clamp_max(t0, num_classes)
        pre == (IF convert THEN <<"to_categorical">> ELSE <<>>)
                   \o <<"get_num_classes", "clamp_max">>
    IN IF reduction \notin possible_reductions
       THEN [err |-> "ValueError", msg |-> <<"reduction type not supported", reduction>>,
             steps |-> pre, num_classes |-> num_classes, scores |-> <<>>]
       ELSE [err |-> "", msg |-> <<>>,
             steps |-> Append(pre, "scores"), num_classes |-> num_classes,
             scores |-> CASE reduction = "none" -> scores_none(p, t, num_classes)
                          [] reduction = "sum" -> scores_sum(p, t, num_classes)
                          [] reduction = "elementwise_mean" ->
                                 scores_elementwise_mean(p, t, num_classes)]

\* ------------------------------------------------------------- _confmat_normalize
RowSum(row) == SumSeq(row)

\* slip: the substitutions counted after the NaN entries were overwritten
_confmat_normalize_count_after(m) ==
    LET divided == [i \in 1..Len(m) |-> [j \in 1..Len(m[i]) |-> Frac(m[i][j], RowSum(m[i]))]]
        replaced == [i \in 1..Len(m) |-> [j \in 1..Len(m[i]) |-> NanToZero(divided[i][j])]]
        nan_elements == SumSeq([i \in 1..Len(m) |->
                            SumSeq([j \in 1..Len(m[i]) |-> B(IsNaN(replaced[i][j]))])])
    IN IF nan_elements # 0
       THEN [cm |-> replaced,
             warnings |-> << <<"nan values replaced with zeros", nan_elements>> >>]
       ELSE [cm |-> replaced, warnings |-> <<>>]

_confmat_normalize(m) ==
    LET divided == [i \in 1..Len(m) |-> [j \in 1..Len(m[i]) |-> Frac(m[i][j], RowSum(m[i]))]]
        nan_elements == SumSeq([i \in 1..Len(m) |->
                            SumSeq([j \in 1..Len(m[i]) |-> B(IsNaN(divided[i][j]))])])
    IN IF nan_elements # 0
       THEN [cm |-> [i \in 1..Len(m) |-> [j \in 1..Len(m[i]) |-> NanToZero(divided[i][j])]],
             warnings |-> << <<"nan values replaced with zeros", nan_elements>> >>]
       ELSE [cm |-> divided, warnings |-> <<>>]

\* ------------------------------------------------------------- precision_recall
DeprecationPR == "precision_recall deprecated"

vec_add(a, b) == [c \in 1..Len(a) |-> a[c] + b[c]]

\* slip: recall reduced over the precision denominator
precision_recall_recall_slip(p, t, num_classes, class_reduction, return_support, return_state) ==
    LET s == stat_scores_multiple_classes(p, t, num_classes, "none").scores
        precision == class_reduce(s.tps, vec_add(s.tps, s.fps), s.sups, class_reduction)
        recall == class_reduce(s.tps, vec_add(s.tps, s.fps), s.sups, class_reduction)
    IN IF return_state
       THEN [kind |-> "state", tps |-> s.tps, fps |-> s.fps, fns |-> s.fns, sups |-> s.sups]
       ELSE IF return_support
       THEN [kind |-> "with_support", precision |-> precision, recall |-> recall,
             sups |-> s.sups]
       ELSE [kind |-> "pair", precision |-> precision, recall |-> recall]

precision_recall(p, t, num_classes, class_reduction, return_support, return_state) ==
    LET s == stat_scores_multiple_classes(p, t, num_classes, "none").scores
        precision == class_reduce(s.tps, vec_add(s.tps, s.fps), s.sups, class_reduction)
        recall == class_reduce(s.tps, vec_add(s.tps, s.fns), s.sups, class_reduction)
    IN IF return_state
       THEN [kind |-> "state", tps |-> s.tps, fps |-> s.fps, fns |-> s.fns, sups |-> s.sups]
       ELSE IF return_support
       THEN [kind |-> "with_support", precision |-> precision, recall |-> recall,
             sups |-> s.sups]
       ELSE [kind |-> "pair", precision |-> precision, recall |-> recall]

\* ------------------------------------------------------------- dice_score
\* slip: the false negatives left out of the denominator
dice_class_denom_slip(p, t, i, nan_score, no_fg_score) ==
    IF ~(\E k \in 1..Len(t.data) : t.data[k] = i)
    THEN [score |-> no_fg_score, branch |-> "no_fg"]
    ELSE LET s == stat_scores(p, t, i)
             denom == 2 * s.tp + s.fp
         IN IF denom # 0
            THEN [score |-> Frac(2 * s.tp, denom), branch |-> "ratio"]
            ELSE [score |-> nan_score, branch |-> "nan"]

\* one pass of the loop body for class i: the value added to scores[i - bg], and
\* the branch that produced it
dice_class(p, t, i, nan_score, no_fg_score) ==
    IF ~(\E k \in 1..Len(t.data) : t.data[k] = i)
    THEN [score |-> no_fg_score, branch |-> "no_fg"]
    ELSE LET s == stat_scores(p, t, i)
             denom == 2 * s.tp + s.fp + s.fn
         IN IF denom # 0
            THEN [score |-> Frac(2 * s.tp, denom), branch |-> "ratio"]
            ELSE [score |-> nan_score, branch |-> "nan"]

\* slip: the background flag used without the inversion 1 - int(bool(bg))
dice_score_bg_slip(p, t, bg0, nan_score, no_fg_score, reduction) ==
    LET num_classes == Len(p.data[1])
        bg == B(bg0)
        per == [j \in 1..(num_classes - bg) |->
                   dice_class(p, t, j - 1 + bg, nan_score, no_fg_score)]
        scores == [j \in 1..(num_classes - bg) |-> per[j].score]
    IN [scores |-> scores,
        branches |-> [j \in 1..(num_classes - bg) |-> per[j].branch],
        value |-> reduce(scores, reduction)]

dice_score(p, t, bg0, nan_score, no_fg_score, reduction) ==
    LET num_classes == Len(p.data[1])
        bg == 1 - B(bg0)
        per == [j \in 1..(num_classes - bg) |->
                   dice_class(p, t, j - 1 + bg, nan_score, no_fg_score)]
        scores == [j \in 1..(num_classes - bg) |-> per[j].score]
    IN [scores |-> scores,
        branches |-> [j \in 1..(num_classes - bg) |-> per[j].branch],
        value |-> reduce(scores, reduction)]

\* ------------------------------------------------------------- inputs
\* all sequences over S of length n
Tuples(S, n) == [1..n -> S]

Labels == 0..MaxLabel

LabelTensors(n) == {[ndim |-> 1, data |-> d] : d \in Tuples(Labels, n)}

\* the score rows of c classes: all the mass on class hot - 1, or (hot = 0) a flat
\* row, whose arg-max is a tie
ScoreRows(c) == {[j \in 1..c |-> B(j = hot)] : hot \in 0..c}

ProbTensors(n, c) == {[ndim |-> 2, data |-> d] : d \in Tuples(ScoreRows(c), n)}

ConfusionMatrices(n) == Tuples(Tuples(0..MaxCount, n), n)

NoTensor == [ndim |-> 1, data |-> <<>>]

\* num_classes arguments: omitted, or given (possibly below the largest label)
NumClassesArgs == {None} \cup (0..(MaxLabel + 1))

Reductions == possible_reductions \cup {"mean"}

ClassReductions == {"micro", "macro", "weighted", "none"}

\* nan_score / no_fg_score arguments
ScoreArgs == {<<0, 1>>, <<2, 1>>}

NotCalled == [fn |-> "none"]

\* ------------------------------------------------------------- specification
\* pred and target label tensors of equal shape
InitLabels ==
    \E n \in 1..MaxLen :
        /\ pred \in LabelTensors(n)
        /\ target \in LabelTensors(n)

\* pred a probability tensor with one more axis than target
InitProbs ==
    \E n \in 1..MaxRows : \E c \in 1..MaxCols :
        /\ pred \in ProbTensors(n, c)
        /\ target \in LabelTensors(n)

Init ==
    /\ InitLabels
    /\ cm = <<>>
    /\ call = NotCalled
    /\ result = <<>>
    /\ warnings = <<>>

InitProbTensors ==
    /\ InitProbs
    /\ cm = <<>>
    /\ call = NotCalled
    /\ result = <<>>
    /\ warnings = <<>>

InitConfmat ==
    /\ pred = NoTensor
    /\ target = NoTensor
    /\ \E n \in 1..MaxDim : cm \in ConfusionMatrices(n)
    /\ call = NotCalled
    /\ result = <<>>
    /\ warnings = <<>>

CallStatScores ==
    /\ call = NotCalled
    /\ target.data # <<>>
    /\ \E class_index \in 0..(MaxLabel + 1) :
        /\ call' = [fn |-> "stat_scores", class_index |-> class_index]
        /\ result' = stat_scores(pred, target, class_index)
    /\ UNCHANGED <<pred, target, cm, warnings>>

CallStatScoresMultipleClasses ==
    /\ call = NotCalled
    /\ target.data # <<>>
    /\ \E num_classes \in NumClassesArgs : \E reduction \in Reductions :
        /\ call' = [fn |-> "stat_scores_multiple_classes",
                    num_classes |-> num_classes, reduction |-> reduction]
        /\ result' = stat_scores_multiple_classes(pred, target, num_classes, reduction)
    /\ warnings' = <<DeprecationSSMC>>
    /\ UNCHANGED <<pred, target, cm>>

CallPrecisionRecall ==
    /\ call = NotCalled
    /\ target.data # <<>>
    /\ \E num_classes \in NumClassesArgs : \E class_reduction \in ClassReductions :
       \E flags \in {<<FALSE, FALSE>>, <<TRUE, FALSE>>, <<FALSE, TRUE>>} :
        /\ call' = [fn |-> "precision_recall", num_classes |-> num_classes,
                    class_reduction |-> class_reduction,
                    return_support |-> flags[1], return_state |-> flags[2]]
        /\ result' = precision_recall(pred, target, num_classes, class_reduction,
                                      flags[1], flags[2])
    /\ warnings' = <<DeprecationPR, DeprecationSSMC>>
    /\ UNCHANGED <<pred, target, cm>>

CallDiceScore ==
    /\ call = NotCalled
    /\ pred.ndim = 2
    /\ \E bg \in BOOLEAN : \E nan_score \in ScoreArgs : \E no_fg_score \in ScoreArgs :
       \E reduction \in {"elementwise_mean", "sum", "none"} :
        /\ call' = [fn |-> "dice_score", bg |-> bg, nan_score |-> nan_score,
                    no_fg_score |-> no_fg_score, reduction |-> reduction]
        /\ result' = dice_score(pred, target, bg, nan_score, no_fg_score, reduction)
    /\ UNCHANGED <<pred, target, cm, warnings>>

CallConfmatNormalize ==
    /\ call = NotCalled
    /\ cm # <<>>
    /\ call' = [fn |-> "_confmat_normalize"]
    /\ LET r == _confmat_normalize(cm)
       IN /\ result' = r.cm
          /\ warnings' = r.warnings
    /\ UNCHANGED <<pred, target, cm>>

\* calls on hard-label predictions
Next ==
    \/ CallStatScores
    \/ CallStatScoresMultipleClasses
    \/ CallPrecisionRecall

Spec == Init /\ [][Next]_vars

\* calls on probability predictions, converted by arg-max
NextProbs ==
    \/ CallStatScores
    \/ CallStatScoresMultipleClasses
    \/ CallDiceScore

SpecProbs == InitProbTensors /\ [][NextProbs]_vars

NextConfmat == CallConfmatNormalize

SpecConfmat == InitConfmat /\ [][NextConfmat]_vars

\* ------------------------------------------------------------- properties
\* a label tensor literal
L(d) == [ndim |-> 1, data |-> d]

\* the hard labels the call compares: pred after the arg-max conversion, and target
PredLabels ==
    IF pred.ndim = target.ndim + 1 THEN to_categorical(pred).data ELSE pred.data

TargetLabels == target.data

Positions == 1..Len(target.data)

MaxOf(S) == CHOOSE x \in S : \A y \in S : y <= x

\* num_classes as given, or else one more than the largest label observed
NumClassesOf(arg) ==
    IF arg = None
    THEN 1 + MaxOf({PredLabels[k] : k \in Positions} \cup {TargetLabels[k] : k \in Positions})
    ELSE arg

\* the positions whose target label falls in the overflow bucket of nc classes
TargetOverflow(nc) == {k \in Positions : TargetLabels[k] >= nc}

PredOverflow(nc) == {k \in Positions : PredLabels[k] >= nc}

Matches == {k \in Positions : PredLabels[k] = TargetLabels[k]}

\* the five counts of class ci, counted as sets of positions
TPset(ci) == {k \in Positions : PredLabels[k] = ci /\ TargetLabels[k] = ci}
FPset(ci) == {k \in Positions : PredLabels[k] = ci /\ TargetLabels[k] # ci}
TNset(ci) == {k \in Positions : PredLabels[k] # ci /\ TargetLabels[k] # ci}
FNset(ci) == {k \in Positions : PredLabels[k] # ci /\ TargetLabels[k] = ci}
SUPset(ci) == {k \in Positions : TargetLabels[k] = ci}

CalledNone ==
    /\ call.fn = "stat_scores_multiple_classes"
    /\ call.reduction = "none"

\* C1: stat_scores returns, for class_index ci, TP = #(pred = ci and target = ci),
\* FP = #(pred = ci and target # ci), TN = #(pred # ci and target # ci),
\* FN = #(pred # ci and target = ci) and Support = #(target = ci); the five are
\* non-negative, TP + FP + TN + FN is the element count and TP + FN = Support; and
\* pred = [1,2,3], target = [0,2,3], class_index = 1 gives (0, 1, 2, 0, 0) (the
\* example is evaluated once, before the call).
C1_StatScoresCounts ==
    /\ call = NotCalled =>
        stat_scores(L(<<1, 2, 3>>), L(<<0, 2, 3>>), 1)
            = [tp |-> 0, fp |-> 1, tn |-> 2, fn |-> 0, sup |-> 0]
    /\ call.fn = "stat_scores" =>
        LET ci == call.class_index
        IN /\ result.tp = Cardinality(TPset(ci))
           /\ result.fp = Cardinality(FPset(ci))
           /\ result.tn = Cardinality(TNset(ci))
           /\ result.fn = Cardinality(FNset(ci))
           /\ result.sup = Cardinality(SUPset(ci))
           /\ result.tp >= 0 /\ result.fp >= 0 /\ result.tn >= 0
           /\ result.fn >= 0 /\ result.sup >= 0
           /\ result.tp + result.fp + result.tn + result.fn = Len(target.data)
           /\ result.tp + result.fn = result.sup

\* a call on two elements, one a true positive and one a false negative
C1_Witness ==
    /\ call.fn = "stat_scores"
    /\ result.tp = 1
    /\ result.fn = 1
    /\ result.sup = 2

\* C2: with reduction 'none', the five vectors have one entry per class
\* 0..num_classes-1 (num_classes as given, or inferred), and entry c of each equals
\* the count stat_scores returns for class_index = c, also when labels at or above
\* num_classes were clamped into the discarded overflow bucket.
C2_NoneMatchesPerClass ==
    CalledNone =>
        LET nc == NumClassesOf(call.num_classes)
            s == result.scores
        IN /\ result.err = ""
           /\ result.num_classes = nc
           /\ Len(s.tps) = nc /\ Len(s.fps) = nc /\ Len(s.tns) = nc
           /\ Len(s.fns) = nc /\ Len(s.sups) = nc
           /\ \A c \in 0..(nc - 1) :
                LET one == stat_scores(pred, target, c)
                IN /\ s.tps[c + 1] = one.tp
                   /\ s.fps[c + 1] = one.fp
                   /\ s.tns[c + 1] = one.tn
                   /\ s.fns[c + 1] = one.fn
                   /\ s.sups[c + 1] = one.sup

\* a 'none' call with a given num_classes below a label of pred and of target
C2_Witness ==
    /\ CalledNone
    /\ call.num_classes = 2
    /\ PredOverflow(2) # {}
    /\ TargetOverflow(2) # {}
    /\ \E c \in 1..2 : result.scores.fns[c] = 1

\* C3 as stated: with reduction 'none' the Support vector sums to the element count
\* of target, for any pred, target and num_classes.
C3_SupportSumsToTotal ==
    CalledNone => SumSeq(result.scores.sups) = Len(target.data)

\* C3 as amended: with reduction 'none' the Support vector sums to the number of
\* target elements whose label is below num_classes, i.e. the element count less the
\* target elements in the discarded overflow bucket; it is the element count exactly
\* when no target label is at or above num_classes.
C3_SupportSumsToInRange ==
    CalledNone =>
        LET nc == NumClassesOf(call.num_classes)
        IN /\ SumSeq(result.scores.sups)
                = Len(target.data) - Cardinality(TargetOverflow(nc))
           /\ (SumSeq(result.scores.sups) = Len(target.data)) <=> (TargetOverflow(nc) = {})

\* a 'none' call in which one of two target elements is in the overflow bucket
C3_Witness ==
    /\ CalledNone
    /\ Len(target.data) = 2
    /\ Cardinality(TargetOverflow(NumClassesOf(call.num_classes))) = 1
    /\ SumSeq(result.scores.sups) = 1

\* the per-class count vectors over classes 0..nc-1, from stat_scores
PerClass(nc) ==
    [tps  |-> [c \in 1..nc |-> stat_scores(pred, target, c - 1).tp],
     fps  |-> [c \in 1..nc |-> stat_scores(pred, target, c - 1).fp],
     fns  |-> [c \in 1..nc |-> stat_scores(pred, target, c - 1).fn],
     sups |-> [c \in 1..nc |-> stat_scores(pred, target, c - 1).sup]]

\* the unweighted mean over the classes of num[c] / denom[c], 0/0 counted as 0
MacroMean(num, denom) ==
    RDiv(RSumSeq([c \in 1..Len(num) |->
                    IF denom[c] = 0 THEN <<0, 1>> ELSE Frac(num[c], denom[c])]),
         <<Len(num), 1>>)

CalledPrecisionRecall ==
    /\ call.fn = "precision_recall"
    /\ ~call.return_state

\* C4: precision_recall returns precision = class_reduce(TP, TP + FP, Support, strategy)
\* and recall = class_reduce(TP, TP + FN, Support, strategy) over the per-class vectors
\* of the 'none' mode; with strategy macro each is the unweighted mean over classes
\* 0..num_classes-1 of the per-class ratio, 0/0 counted as 0; and pred = [0,1,2,3],
\* target = [0,2,2,2] gives precision 1/2 and recall 1/3.
C4_PrecisionRecallComposition ==
    /\ call = NotCalled =>
        LET ex == precision_recall(L(<<0, 1, 2, 3>>), L(<<0, 2, 2, 2>>), None, "macro",
                                   FALSE, FALSE)
        IN ex.precision = <<1, 2>> /\ ex.recall = <<1, 3>>
    /\ CalledPrecisionRecall =>
        LET v == PerClass(NumClassesOf(call.num_classes))
            none == stat_scores_multiple_classes(pred, target, call.num_classes, "none").scores
        IN /\ none.tps = v.tps /\ none.fps = v.fps /\ none.fns = v.fns /\ none.sups = v.sups
           /\ result.precision
                = class_reduce(v.tps, vec_add(v.tps, v.fps), v.sups, call.class_reduction)
           /\ result.recall
                = class_reduce(v.tps, vec_add(v.tps, v.fns), v.sups, call.class_reduction)
           /\ call.class_reduction = "macro" =>
                /\ result.precision = MacroMean(v.tps, vec_add(v.tps, v.fps))
                /\ result.recall = MacroMean(v.tps, vec_add(v.tps, v.fns))

\* a macro call over three classes, one of them never predicted (0/0 in its
\* precision), whose precision and recall differ
C4_Witness ==
    /\ CalledPrecisionRecall
    /\ call.class_reduction = "macro"
    /\ NumClassesOf(call.num_classes) = 3
    /\ \E c \in 0..2 : TPset(c) = {} /\ FPset(c) = {}
    /\ result.precision = <<1, 3>>
    /\ result.recall = <<1, 6>>

CalledSum ==
    /\ call.fn = "stat_scores_multiple_classes"
    /\ call.reduction = "sum"

\* C8: with reduction 'sum', each of the five aggregates equals the sum over classes
\* 0..num_classes-1 of the corresponding vector of reduction 'none' on the same pred,
\* target and num_classes, also when the overflow bucket is not empty.
C8_SumIsSumOfNone ==
    CalledSum =>
        LET none == stat_scores_multiple_classes(pred, target, call.num_classes, "none").scores
            s == result.scores
        IN /\ s.tps = SumSeq(none.tps)
           /\ s.fps = SumSeq(none.fps)
           /\ s.tns = SumSeq(none.tns)
           /\ s.fns = SumSeq(none.fns)
           /\ s.sups = SumSeq(none.sups)

\* C9: with class_reduction 'micro' and every pred and target label below num_classes,
\* precision and recall are equal, both the number of positions where pred = target
\* over the element count; the summed FP equals the summed FN; and pred = [0,1,2,3],
\* target = [0,1,2,2] gives 3/4 for both.
C9_MicroPrecisionEqualsRecall ==
    /\ call = NotCalled =>
        LET ex == precision_recall(L(<<0, 1, 2, 3>>), L(<<0, 1, 2, 2>>), None, "micro",
                                   FALSE, FALSE)
        IN ex.precision = <<3, 4>> /\ ex.recall = <<3, 4>>
    /\ ( /\ CalledPrecisionRecall
         /\ call.class_reduction = "micro"
         /\ PredOverflow(NumClassesOf(call.num_classes)) = {}
         /\ TargetOverflow(NumClassesOf(call.num_classes)) = {} ) =>
        LET none == stat_scores_multiple_classes(pred, target, call.num_classes, "none").scores
        IN /\ result.precision = result.recall
           /\ result.precision = Frac(Cardinality(Matches), Len(target.data))
           /\ SumSeq(none.fps) = SumSeq(none.fns)

\* a micro call without overflow in which one of two predictions is right
C9_Witness ==
    /\ CalledPrecisionRecall
    /\ call.class_reduction = "micro"
    /\ PredOverflow(NumClassesOf(call.num_classes)) = {}
    /\ TargetOverflow(NumClassesOf(call.num_classes)) = {}
    /\ Cardinality(Matches) = 1
    /\ result.precision = <<1, 2>>
    /\ result.recall = <<1, 2>>

CalledDice == call.fn = "dice_score"

\* the first class of the dice range, and the number of classes in it
DiceFirst == IF call.bg THEN 0 ELSE 1

DiceLen == Len(pred.data[1]) - DiceFirst

\* 2*TP / (2*TP + FP + FN) of class i, counted over the positions
DiceRatio(i) ==
    Frac(2 * Cardinality(TPset(i)),
         2 * Cardinality(TPset(i)) + Cardinality(FPset(i)) + Cardinality(FNset(i)))

C10_NanScoreNeverUsed ==
    CalledDice =>
        /\ \A j \in 1..DiceLen :
            LET i == DiceFirst + j - 1
                s == stat_scores(pred, target, i)
            IN /\ result.branches[j] # "nan"
               /\ SUPset(i) # {} => 2 * s.tp + s.fp + s.fn >= 1
        /\ \A nan_score \in ScoreArgs :
            dice_score(pred, target, call.bg, nan_score, call.no_fg_score,
                       call.reduction).value = result.value

\* a call with nan_score = 2 in which class 1 occurs in target and is never
\* predicted: its score is 0 from the ratio, not nan_score
C10_Witness ==
    /\ CalledDice
    /\ call.nan_score = <<2, 1>>
    /\ ~call.bg
    /\ SUPset(1) # {}
    /\ TPset(1) = {} /\ FPset(1) = {}
    /\ result.branches = <<"ratio">>
    /\ result.scores = << <<0, 1>> >>

CalledInvalidReduction ==
    /\ call.fn = "stat_scores_multiple_classes"
    /\ call.reduction \notin possible_reductions

\* the computations that precede the validation of reduction
Preprocessing ==
    (IF pred.ndim = target.ndim + 1 THEN <<"to_categorical">> ELSE <<>>)
        \o <<"get_num_classes", "clamp_max">>

\* C6 as stated: a reduction outside {none, sum, elementwise_mean} fails with a
\* ValueError naming the value, and nothing was computed before the failure: no
\* arg-max conversion, no num_classes inference, no clamping, no statistics.
C6_FailsBeforeAnyComputation ==
    CalledInvalidReduction =>
        /\ result.err = "ValueError"
        /\ result.msg[2] = call.reduction
        /\ result.steps = <<>>
        /\ result.scores = <<>>

\* C6 as amended: a reduction outside {none, sum, elementwise_mean} fails with a
\* ValueError naming the value, and only then; the failure comes after the arg-max
\* conversion (when pred has the extra axis), the num_classes inference and the
\* clamping, and before any statistics are computed; no scores are returned.
C6_FailsAfterPreprocessing ==
    /\ call.fn = "stat_scores_multiple_classes" =>
        (result.err = "ValueError" <=> call.reduction \notin possible_reductions)
    /\ CalledInvalidReduction =>
        /\ result.err = "ValueError"
        /\ result.msg[2] = call.reduction
        /\ result.steps = Preprocessing
        /\ result.scores = <<>>

\* a failed call on a probability tensor, converted by arg-max before the failure
C6_Witness ==
    /\ CalledInvalidReduction
    /\ pred.ndim = 2
    /\ result.err = "ValueError"
    /\ result.steps = <<"to_categorical", "get_num_classes", "clamp_max">>

CalledConfmat == call.fn = "_confmat_normalize"

\* the entries of cm in rows whose total is zero
ZeroRowEntries ==
    {ij \in (1..Len(cm)) \X (1..Len(cm)) : RowSum(cm[ij[1]]) = 0}

\* every entry of the result is its share of its row, 0 in a row of total zero
RowsNormalized ==
    \A i \in 1..Len(cm) : \A j \in 1..Len(cm[i]) :
        /\ result[i][j] # NaN
        /\ result[i][j] =
             IF RowSum(cm[i]) = 0 THEN <<0, 1>> ELSE Frac(cm[i][j], RowSum(cm[i]))

\* C7 as stated: _confmat_normalize divides each row by its sum, replaces every NaN
\* by 0, and emits exactly one advisory per call, reporting the number of entries
\* substituted.
C7_OneAdvisoryPerCall ==
    CalledConfmat =>
        /\ RowsNormalized
        /\ Len(warnings) = 1
        /\ warnings[1][2] = Cardinality(ZeroRowEntries)

\* C7 as amended: _confmat_normalize divides each row by its sum and replaces every
\* NaN by 0; it emits exactly one advisory, reporting the number of entries
\* substituted, when at least one entry was substituted, and no advisory otherwise.
C7_OneAdvisoryWhenSubstituted ==
    CalledConfmat =>
        /\ RowsNormalized
        /\ IF ZeroRowEntries = {}
           THEN warnings = <<>>
           ELSE /\ Len(warnings) = 1
                /\ warnings[1][2] = Cardinality(ZeroRowEntries)

\* a 2x2 matrix with one row of zeros: two entries substituted, one advisory
C7_Witness ==
    /\ CalledConfmat
    /\ cm = << <<0, 0>>, <<1, 2>> >>
    /\ result = << << <<0, 1>>, <<0, 1>> >>, << <<1, 3>>, <<2, 3>> >> >>
    /\ Len(warnings) = 1
    /\ warnings[1][2] = 2

====
